---- MODULE Spec2Model ----
(***************************************************************************)
(* Model of streamlit_app.py ("AI Sound Design Automator"): one run of the *)
(* "Run Automation" button.  transcribe_and_map builds the sonic map,      *)
(* design_sound_effects returns the effect plan, the main loop requests,   *)
(* decodes, gain-shifts and overlays one clip per plan entry, and the      *)
(* final mix is exported and offered.                                      *)
(*                                                                         *)
(* Units.  Word times are counted in ticks of a quarter second, a grid on  *)
(* which the float subtraction of line 44 and the comparison of line 45    *)
(* are exact.  Effect timestamps are counted in tenths of a millisecond,   *)
(* so that timestamp * 1000 has a fractional millisecond part.  Durations  *)
(* are counted in tenths of a second.  Audio is a sequence of integer      *)
(* samples, one frame every FrameMs milliseconds, all segments in one      *)
(* format (pydub's _sync conversion is not modelled).                      *)
(*                                                                         *)
(* pydub and audioop are modelled by what the library does:                *)
(*   AudioSegment.silent(duration)  int(frame_rate * duration / 1000)      *)
(*                                  zero frames;                           *)
(*   len(seg)                       milliseconds;                          *)
(*   seg + dB                       audioop.mul by 10 ** (dB / 20), floor, *)
(*                                  clipped to the sample range;           *)
(*   seg1.overlay(seg2, position)   audioop.add (clipped to the sample     *)
(*                                  range) of seg2 onto seg1[position:],   *)
(*                                  seg2 cut to what remains of seg1: the  *)
(*                                  result has the length of seg1.         *)
(***************************************************************************)
EXTENDS Integers, Sequences, FiniteSets

VARIABLES
    pc,             \* position of the run
    silence_thresh, \* sidebar slider, in ticks
    vol_ducking,    \* sidebar slider, in dB
    uploaded_file,  \* the uploaded voiceover
    words,          \* transcript.words
    wi,             \* number of words the mapping loop has consumed
    last_end_time,  \* running end time of the mapping loop, in ticks
    sonic_map,      \* the annotated transcript, as a sequence of entries
    plan_raw,       \* shape of the planning response
    sfx_plan,       \* value returned by design_sound_effects
    i,              \* number of plan entries the main loop has consumed
    base_audio,     \* decoded voice
    sfx_layer,      \* effects layer
    requests,       \* synthesis requests issued, in order
    errors,         \* st.error reports of generate_sfx, in order
    overlaid,       \* overlay calls made on the effects layer, in order
    last_outcome,   \* what the latest loop iteration met
    final_mix,      \* result of line 135
    offered,        \* the encoded mix is offered for playback and download
    fatal,          \* stage at which an exception ended the run
    swap            \* the two-order compositing experiment

vars == <<pc, silence_thresh, vol_ducking, uploaded_file, words, wi,
          last_end_time, sonic_map, plan_raw, sfx_plan, i, base_audio,
          sfx_layer, requests, errors, overlaid, last_outcome, final_mix,
          offered, fatal, swap>>

mapVars == <<words, wi, last_end_time, sonic_map>>
runVars == <<plan_raw, sfx_plan, i, base_audio, sfx_layer, requests, errors,
             overlaid, last_outcome, final_mix, offered, fatal>>

(***************************************************************************)
(* Bounds of the model.                                                    *)
(***************************************************************************)
MaxWords == 3
MaxTick == 13
MaxPlan == 2
MaxVoiceLen == 2
MaxClipLen == 4
SampleMax == 3
FrameMs == 1000

(***************************************************************************)
(* Program constants.                                                      *)
(***************************************************************************)
TickCs == 25
MarginMs == 4000
DefaultDuration == 20
MinDuration == 5
MaxDuration == 220
DefaultVolume == 0
TsPerMs == 10

Min(a, b) == IF a < b THEN a ELSE b
Max(a, b) == IF a > b THEN a ELSE b
Abs(a) == IF a < 0 THEN -a ELSE a

None == <<>>
Some(v) == <<v>>
Get(opt, default) == IF opt = None THEN default ELSE opt[1]

(***************************************************************************)
(* transcribe_and_map, lines 37-51.                                        *)
(***************************************************************************)
\* f"{gap:.1f}": the gap, exact on the tick grid, correctly rounded to
\* tenths of a second, a tie going to the even tenth.
FormatOneDecimal(gap) ==
    LET cs == gap * TickCs
        lo == cs \div 10
        r  == cs % 10
    IN  IF r < 5 THEN lo
        ELSE IF r > 5 THEN lo + 1
        ELSE IF lo % 2 = 0 THEN lo ELSE lo + 1

\* f"{start:.2f}": exact on the tick grid, in hundredths of a second.
FormatTwoDecimals(start) == start * TickCs

ExceedsAtLeast(gap, thresh) == gap >= thresh

\* line 45
Exceeds(gap, thresh) == gap > thresh

SilenceEntry(gap) == [kind |-> "silence", text |-> "", value |-> FormatOneDecimal(gap)]
WordEntry(word) == [kind |-> "word", text |-> word.word, value |-> FormatTwoDecimals(word.start)]

\* One iteration of the loop of lines 42-48 on (sonic_map, last_end_time).
MapWord(m, last, word, thresh) ==
    LET gap == word.start - last
        m1  == IF Exceeds(gap, thresh) THEN Append(m, SilenceEntry(gap)) ELSE m
    IN  [map |-> Append(m1, WordEntry(word)), last |-> word.end]

RECURSIVE MapFrom(_, _, _, _, _)
MapFrom(ws, k, m, last, thresh) ==
    IF k > Len(ws) THEN [map |-> m, last |-> last]
    ELSE LET s == MapWord(m, last, ws[k], thresh)
         IN  MapFrom(ws, k + 1, s.map, s.last, thresh)

\* lines 38-48 as a whole
SonicMapOf(ws, thresh) == MapFrom(ws, 1, <<>>, 0, thresh)

WordNames == <<"one", "two", "three", "four", "five">>
Ticks == 0..MaxTick
\* Word tokens: start <= end, a word lasting one or two ticks.
TokenAt(k) == {[word |-> WordNames[k], start |-> s, end |-> e] :
                 s \in Ticks, e \in Ticks}
Token(k) == {t \in TokenAt(k) : t.end - t.start \in {1, 2}}
\* Transcripts of n words ordered by start time; words may overlap.
RECURSIVE TranscriptsOfLen(_)
TranscriptsOfLen(n) ==
    IF n = 0 THEN {<<>>}
    ELSE {Append(ws, t) : ws \in TranscriptsOfLen(n - 1), t \in Token(n)}
Ordered(ws) == \A k \in 1..(Len(ws) - 1) : ws[k].start <= ws[k + 1].start
Transcripts == UNION {{ws \in TranscriptsOfLen(n) : Ordered(ws)} : n \in 0..MaxWords}
\* Slider values on the tick grid: 0.5, 1.0 and 2.25 seconds.
Thresholds == {2, 4, 9}

NoSwap == [step |-> "off"]

InitMap ==
    /\ pc = "map"
    /\ silence_thresh \in Thresholds
    /\ vol_ducking = 0
    /\ uploaded_file = <<>>
    /\ words \in Transcripts
    /\ wi = 0
    /\ last_end_time = 0
    /\ sonic_map = <<>>
    /\ plan_raw = "none"
    /\ sfx_plan = [kind |-> "none", items |-> <<>>]
    /\ i = 0
    /\ base_audio = <<>>
    /\ sfx_layer = <<>>
    /\ requests = <<>>
    /\ errors = <<>>
    /\ overlaid = <<>>
    /\ last_outcome = "none"
    /\ final_mix = <<>>
    /\ offered = FALSE
    /\ fatal = "none"
    /\ swap = NoSwap

\* One pass of the loop body, lines 42-48.
MapNextWord ==
    /\ pc = "map"
    /\ wi < Len(words)
    /\ LET s == MapWord(sonic_map, last_end_time, words[wi + 1], silence_thresh)
       IN  /\ sonic_map' = s.map
           /\ last_end_time' = s.last
    /\ wi' = wi + 1
    /\ UNCHANGED <<pc, silence_thresh, vol_ducking, uploaded_file, words, swap>>
    /\ UNCHANGED runVars

\* The loop is exhausted: line 51 returns the map.
MapReturn ==
    /\ pc = "map"
    /\ wi = Len(words)
    /\ pc' = "mapped"
    /\ UNCHANGED <<silence_thresh, vol_ducking, uploaded_file, swap>>
    /\ UNCHANGED mapVars
    /\ UNCHANGED runVars

NextMap == MapNextWord \/ MapReturn

SpecMap == InitMap /\ [][NextMap]_vars


\* gap_k of the input, the markers due up to word k, and the place of word
\* k in a map that has exactly those markers
GapOf(k) == words[k].start - (IF k = 1 THEN 0 ELSE words[k - 1].end)
MarkersUpTo(k) == Cardinality({j \in 1..k : GapOf(j) > silence_thresh})
PlaceOf(k) == k + MarkersUpTo(k)

(***************************************************************************)
(* C1.  For every ordered transcript and every threshold the sonic map     *)
(* holds every input word exactly once, in input order, and a silence      *)
(* marker stands immediately before word k if and only if                  *)
(* gap_k = start_k - end_(k-1) > threshold (end_0 = 0.0); the marker       *)
(* carries gap_k rounded to the nearest tenth of a second.  Stated on the  *)
(* prefix of wi words the loop has consumed.                               *)
(***************************************************************************)
C1_SilenceMap ==
    pc \in {"map", "mapped"} =>
        /\ Len(sonic_map) = wi + MarkersUpTo(wi)
        /\ \A k \in 1..wi :
              /\ sonic_map[PlaceOf(k)].kind = "word"
              /\ sonic_map[PlaceOf(k)].text = words[k].word
              /\ IF GapOf(k) > silence_thresh
                 THEN /\ sonic_map[PlaceOf(k) - 1].kind = "silence"
                      /\ 2 * Abs(10 * sonic_map[PlaceOf(k) - 1].value
                                 - TickCs * GapOf(k)) <= 10
                 ELSE PlaceOf(k) = 1 \/ sonic_map[PlaceOf(k) - 1].kind = "word"

\* Starts [0.0, 0.5, 3.0], ends [0.25, 0.75, 3.25], threshold 1.0: one
\* marker, before the third word, reading 2.2s.
C1_Witness ==
    /\ pc = "mapped"
    /\ silence_thresh = 4
    /\ Len(words) = 3
    /\ <<words[1].start, words[2].start, words[3].start>> = <<0, 2, 12>>
    /\ <<words[1].end, words[2].end, words[3].end>> = <<1, 3, 13>>
    /\ Len(sonic_map) = 4
    /\ sonic_map[3] = [kind |-> "silence", text |-> "", value |-> 22]
    /\ \A k \in {1, 2, 4} : sonic_map[k].kind = "word"


(***************************************************************************)
(* pydub / audioop, as used by lines 111-135.                              *)
(***************************************************************************)
SampleMin == -(SampleMax + 1)
\* audioop's fbound: a sample outside the sample width is clipped.
Clip(v) == Max(SampleMin, Min(SampleMax, v))

AudioopAddReplace(a, b) == b

\* audioop.add on one sample
AudioopAdd(a, b) == Clip(a + b)

\* db_to_float(dB) = 10 ** (dB / 20), in thousandths
DbToFloatMilli(db) ==
    CASE db = -10 -> 316
      [] db = -5  -> 562
      [] db = 0   -> 1000
      [] db = 5   -> 1778

\* audioop.mul on one sample: floor of the product, clipped
AudioopMul(a, milli) == Clip((a * milli) \div 1000)

\* AudioSegment.__add__(dB) = apply_gain
ApplyGain(seg, db) == [k \in 1..Len(seg) |-> AudioopMul(seg[k], DbToFloatMilli(db))]

\* AudioSegment.silent(duration=ms)
Silent(ms) == [k \in 1..(ms \div FrameMs) |-> 0]

\* len(seg), in milliseconds
LenMs(seg) == Len(seg) * FrameMs

\* The frame a millisecond position of seg falls on: a slice bound is
\* clamped to len(seg) and converted by int(frame_count(ms)).
FrameAt(seg, ms) == Min(Max(ms, 0), LenMs(seg)) \div FrameMs

\* seg1.overlay(seg2, position=ms): seg2 is cut to what remains of seg1.
Overlay(seg1, seg2, ms) ==
    LET p == FrameAt(seg1, ms)
        n == Min(Len(seg2), Len(seg1) - p)
    IN  [k \in 1..Len(seg1) |->
            IF k > p /\ k <= p + n THEN AudioopAdd(seg1[k], seg2[k - p])
            ELSE seg1[k]]

(***************************************************************************)
(* generate_sfx and the main loop, lines 76-90 and 116-132.                *)
(***************************************************************************)
ClampDurationUpperOnly(duration) == Min(duration, MaxDuration)

\* line 81: min(max(duration, 0.5), 22.0)
ClampDuration(duration) == Min(Max(duration, MinDuration), MaxDuration)

TimestampMsRounded(ts) == (ts + TsPerMs \div 2) \div TsPerMs

\* line 131: int(effect['timestamp'] * 1000), truncation toward zero
TimestampMs(ts) == IF ts >= 0 THEN ts \div TsPerMs ELSE -((-ts) \div TsPerMs)

\* line 127
VolAdj(effect) == Get(effect.volume_adjustment, DefaultVolume) + vol_ducking

\* the request of lines 79-85 for plan entry j
RequestOf(j, effect) ==
    [index |-> j, text |-> effect.prompt[1],
     duration |-> ClampDuration(Get(effect.duration_seconds, DefaultDuration))]

Str(t) == [str |-> TRUE, text |-> t]
NotStr(t) == [str |-> FALSE, text |-> t]
Effect(prompt, ts, dur, vol) ==
    [dict |-> TRUE, prompt |-> prompt, timestamp |-> ts,
     duration_seconds |-> dur, volume_adjustment |-> vol]
\* a plan entry that is no JSON object (a string, a number, null)
NotADict == [dict |-> FALSE, prompt |-> None, timestamp |-> None,
             duration_seconds |-> None, volume_adjustment |-> None]

\* The proposals the planning service may return: timestamps in tenths of
\* a millisecond, durations in tenths of a second, volume in dB.
Proposals ==
    { Effect(Some(Str("wind")),  Some(10006), None,      None),
      Effect(Some(Str("rain")),  Some(20000), Some(300), Some(-5)),
      Effect(Some(Str("door")),  Some(50004), Some(-50), Some(5)),
      Effect(Some(Str("birds")), Some(70000), Some(35),  None),
      Effect(Some(Str("")),      Some(0),     Some(20),  None),
      Effect(Some(NotStr("5")),  Some(0),     None,      None),
      Effect(None,               Some(10000), Some(20),  None),
      Effect(Some(Str("sea")),   None,        Some(20),  None),
      NotADict }

RECURSIVE ListsOfLen(_, _)
ListsOfLen(S, n) ==
    IF n = 0 THEN {<<>>}
    ELSE {Append(l, e) : l \in ListsOfLen(S, n - 1), e \in S}
Plans == UNION {ListsOfLen(Proposals, n) : n \in 0..MaxPlan}

\* What json.loads(content).get('effects', []) returns, line 74, by the
\* shape of the response: the key missing, null, a number, a string (a
\* sized iterable of one-character strings), a list.
PlanResponses ==
    {[raw |-> "missing", kind |-> "list",   items |-> <<>>],
     [raw |-> "null",    kind |-> "null",   items |-> <<>>],
     [raw |-> "number",  kind |-> "number", items |-> <<>>],
     [raw |-> "string",  kind |-> "string", items |-> <<NotADict>>]}
    \cup {[raw |-> "list", kind |-> "list", items |-> l] : l \in Plans}

\* len(sfx_plan), line 106, is defined
Sized(plan) == plan.kind \in {"list", "string"}

Amplitudes == {SampleMax, -SampleMax}
\* decoded clips: one frame or MaxClipLen frames of one amplitude
Clips == {[k \in 1..n |-> a] : n \in {1, MaxClipLen}, a \in Amplitudes}
Voices == {[k \in 1..n |-> 2] : n \in 1..MaxVoiceLen}
RunTranscripts ==
    {<<>>,
     <<[word |-> "one", start |-> 0, end |-> 1],
       [word |-> "two", start |-> 2, end |-> 3],
       [word |-> "three", start |-> 12, end |-> 13]>>}

Init ==
    /\ pc = "run"
    /\ silence_thresh = 4
    /\ vol_ducking \in {-5, 0}
    /\ uploaded_file \in Voices
    /\ words = <<>>
    /\ wi = 0
    /\ last_end_time = 0
    /\ sonic_map = <<>>
    /\ plan_raw = "none"
    /\ sfx_plan = [kind |-> "none", items |-> <<>>]
    /\ i = 0
    /\ base_audio = <<>>
    /\ sfx_layer = <<>>
    /\ requests = <<>>
    /\ errors = <<>>
    /\ overlaid = <<>>
    /\ last_outcome = "none"
    /\ final_mix = <<>>
    /\ offered = FALSE
    /\ fatal = "none"
    /\ swap = NoSwap

config == <<silence_thresh, vol_ducking, uploaded_file, swap>>

HaltSwallowed(stage) ==
    /\ pc' = "export"
    /\ fatal' = stage

\* An exception leaves the script: the run ends at this stage.
Halt(stage) ==
    /\ pc' = "halted"
    /\ fatal' = stage

\* line 30 raises
TranscribeFails ==
    /\ pc = "run"
    /\ Halt("transcribe")
    /\ UNCHANGED <<config, mapVars, plan_raw, sfx_plan, i, base_audio, sfx_layer,
                   requests, errors, overlaid, last_outcome, final_mix, offered>>

\* lines 101-102: transcribe_and_map returns the sonic map
TranscribeAndMap ==
    /\ pc = "run"
    /\ \E ws \in RunTranscripts :
          LET s == SonicMapOf(ws, silence_thresh)
          IN  /\ words' = ws
              /\ wi' = Len(ws)
              /\ sonic_map' = s.map
              /\ last_end_time' = s.last
    /\ pc' = "plan"
    /\ UNCHANGED <<config, runVars>>

\* line 105 raises: the request fails, the content is no JSON, or the
\* top-level value has no .get
DesignFails ==
    /\ pc = "plan"
    /\ Halt("plan")
    /\ UNCHANGED <<config, mapVars, plan_raw, sfx_plan, i, base_audio, sfx_layer,
                   requests, errors, overlaid, last_outcome, final_mix, offered>>

\* lines 105-107 with a value that has a length
PlanCreated ==
    /\ pc = "plan"
    /\ \E r \in PlanResponses :
          /\ Sized(r)
          /\ plan_raw' = r.raw
          /\ sfx_plan' = [kind |-> r.kind, items |-> r.items]
    /\ pc' = "assemble"
    /\ UNCHANGED <<config, mapVars, i, base_audio, sfx_layer, requests, errors,
                   overlaid, last_outcome, final_mix, offered, fatal>>

\* lines 105-106 with a value that has none: len(sfx_plan) raises
PlanNotSized ==
    /\ pc = "plan"
    /\ \E r \in PlanResponses :
          /\ ~Sized(r)
          /\ plan_raw' = r.raw
          /\ sfx_plan' = [kind |-> r.kind, items |-> r.items]
    /\ Halt("plan_report")
    /\ UNCHANGED <<config, mapVars, i, base_audio, sfx_layer, requests, errors,
                   overlaid, last_outcome, final_mix, offered>>

\* line 111 raises: the voiceover cannot be decoded
LoadVoiceFails ==
    /\ pc = "assemble"
    /\ Halt("load_voice")
    /\ UNCHANGED <<config, mapVars, plan_raw, sfx_plan, i, base_audio, sfx_layer,
                   requests, errors, overlaid, last_outcome, final_mix, offered>>

\* lines 110-114
LoadVoice ==
    /\ pc = "assemble"
    /\ base_audio' = uploaded_file
    /\ sfx_layer' = Silent(LenMs(uploaded_file) + MarginMs)
    /\ i' = 0
    /\ pc' = "loop"
    /\ UNCHANGED <<config, mapVars, plan_raw, sfx_plan, requests, errors, overlaid,
                   last_outcome, final_mix, offered, fatal>>

InLoop == pc = "loop" /\ i < Len(sfx_plan.items)
Current == sfx_plan.items[i + 1]
HasPrompt(effect) == effect.dict /\ effect.prompt # None

\* line 121: effect['prompt'] raises (no such key, or the entry is no dict)
EffectWithoutPrompt ==
    /\ InLoop
    /\ ~HasPrompt(Current)
    /\ last_outcome' = "no_prompt"
    /\ Halt("effect_prompt")
    /\ UNCHANGED <<config, mapVars, plan_raw, sfx_plan, i, base_audio, sfx_layer,
                   requests, errors, overlaid, final_mix, offered>>

\* lines 121-123: the request raises inside generate_sfx, which reports it
\* and returns None; the effect is skipped
EffectRequestFails ==
    /\ InLoop
    /\ HasPrompt(Current)
    /\ requests' = Append(requests, RequestOf(i + 1, Current))
    /\ errors' = Append(errors, [index |-> i + 1, text |-> Current.prompt[1]])
    /\ last_outcome' = "request_failed"
    /\ i' = i + 1
    /\ UNCHANGED <<pc, config, mapVars, plan_raw, sfx_plan, base_audio, sfx_layer,
                   overlaid, final_mix, offered, fatal>>

\* lines 121-124: the request succeeds and AudioSegment.from_file raises on
\* the bytes returned
EffectDecodeFails ==
    /\ InLoop
    /\ HasPrompt(Current)
    /\ requests' = Append(requests, RequestOf(i + 1, Current))
    /\ last_outcome' = "decode_failed"
    /\ Halt("decode")
    /\ UNCHANGED <<config, mapVars, plan_raw, sfx_plan, i, base_audio, sfx_layer,
                   errors, overlaid, final_mix, offered>>

\* lines 121-131: the clip is decoded and effect['timestamp'] raises
EffectWithoutTimestamp ==
    /\ InLoop
    /\ HasPrompt(Current)
    /\ Current.timestamp = None
    /\ requests' = Append(requests, RequestOf(i + 1, Current))
    /\ last_outcome' = "no_timestamp"
    /\ Halt("effect_timestamp")
    /\ UNCHANGED <<config, mapVars, plan_raw, sfx_plan, i, base_audio, sfx_layer,
                   errors, overlaid, final_mix, offered>>

\* lines 121-132: the clip is decoded, gain-shifted and overlaid
EffectOverlaid ==
    /\ InLoop
    /\ HasPrompt(Current)
    /\ Current.timestamp # None
    /\ \E sfx_clip \in Clips :
          LET shifted == ApplyGain(sfx_clip, VolAdj(Current))
              timestamp_ms == TimestampMs(Current.timestamp[1])
          IN  /\ sfx_layer' = Overlay(sfx_layer, shifted, timestamp_ms)
              /\ overlaid' = Append(overlaid, [index |-> i + 1,
                                               position |-> timestamp_ms,
                                               clip |-> shifted])
    /\ requests' = Append(requests, RequestOf(i + 1, Current))
    /\ last_outcome' = "overlaid"
    /\ i' = i + 1
    /\ UNCHANGED <<pc, config, mapVars, plan_raw, sfx_plan, base_audio, errors,
                   final_mix, offered, fatal>>

\* line 135, once the loop is exhausted
FinalMix ==
    /\ pc = "loop"
    /\ i = Len(sfx_plan.items)
    /\ final_mix' = Overlay(sfx_layer, base_audio, 0)
    /\ pc' = "export"
    /\ UNCHANGED <<config, mapVars, plan_raw, sfx_plan, i, base_audio, sfx_layer,
                   requests, errors, overlaid, last_outcome, offered, fatal>>

\* line 139 raises: the encoder fails
ExportFails ==
    /\ pc = "export"
    /\ Halt("export")
    /\ UNCHANGED <<config, mapVars, plan_raw, sfx_plan, i, base_audio, sfx_layer,
                   requests, errors, overlaid, last_outcome, final_mix, offered>>

\* lines 138-149
Export ==
    /\ pc = "export"
    /\ offered' = TRUE
    /\ pc' = "done"
    /\ UNCHANGED <<config, mapVars, plan_raw, sfx_plan, i, base_audio, sfx_layer,
                   requests, errors, overlaid, last_outcome, final_mix, fatal>>

Next ==
    \/ TranscribeFails
    \/ TranscribeAndMap
    \/ DesignFails
    \/ PlanCreated
    \/ PlanNotSized
    \/ LoadVoiceFails
    \/ LoadVoice
    \/ EffectWithoutPrompt
    \/ EffectRequestFails
    \/ EffectDecodeFails
    \/ EffectWithoutTimestamp
    \/ EffectOverlaid
    \/ FinalMix
    \/ ExportFails
    \/ Export

Spec == Init /\ [][Next]_vars


(***************************************************************************)
(* The two-order compositing experiment: two gain-shifted clips a and b    *)
(* are overlaid on one effects layer in both orders (line 132 twice), and  *)
(* the voice is overlaid on each result (line 135).                        *)
(***************************************************************************)
\* clips after the gain shift of line 128
ShiftedClips == {ApplyGain(c, db) : c \in Clips, db \in {-5, 0}}
Positions == {0, 1000, 2500, 5000}
\* effects layers of a voice: as initialised, or after an earlier overlay
LayersOf(voice) ==
    LET silent == Silent(LenMs(voice) + MarginMs)
    IN  {silent} \cup {Overlay(silent, [k \in 1..MaxClipLen |-> amp], 0) : amp \in Amplitudes}

InitMix ==
    /\ pc = "swap"
    /\ silence_thresh = 4
    /\ vol_ducking = 0
    /\ uploaded_file \in Voices
    /\ words = <<>>
    /\ wi = 0
    /\ last_end_time = 0
    /\ sonic_map = <<>>
    /\ plan_raw = "none"
    /\ sfx_plan = [kind |-> "none", items |-> <<>>]
    /\ i = 0
    /\ base_audio = uploaded_file
    /\ sfx_layer \in LayersOf(uploaded_file)
    /\ requests = <<>>
    /\ errors = <<>>
    /\ overlaid = <<>>
    /\ last_outcome = "none"
    /\ final_mix = <<>>
    /\ offered = FALSE
    /\ fatal = "none"
    /\ \E a \in ShiftedClips, b \in ShiftedClips, pa \in Positions, pb \in Positions :
          swap = [step |-> "start", a |-> a, pa |-> pa, b |-> b, pb |-> pb,
                  ab |-> sfx_layer, ba |-> sfx_layer,
                  mix_ab |-> <<>>, mix_ba |-> <<>>]

fixedInSwap == <<pc, silence_thresh, vol_ducking, uploaded_file>>

\* line 132: the first clip of each order
OverlayFirst ==
    /\ swap.step = "start"
    /\ swap' = [swap EXCEPT !.step = "first",
                            !.ab = Overlay(swap.ab, swap.a, swap.pa),
                            !.ba = Overlay(swap.ba, swap.b, swap.pb)]
    /\ UNCHANGED <<fixedInSwap, mapVars, runVars>>

\* line 132: the second clip of each order
OverlaySecond ==
    /\ swap.step = "first"
    /\ swap' = [swap EXCEPT !.step = "second",
                            !.ab = Overlay(swap.ab, swap.b, swap.pb),
                            !.ba = Overlay(swap.ba, swap.a, swap.pa)]
    /\ UNCHANGED <<fixedInSwap, mapVars, runVars>>

\* line 135: the voice over each layer
OverlayVoice ==
    /\ swap.step = "second"
    /\ swap' = [swap EXCEPT !.step = "mixed",
                            !.mix_ab = Overlay(swap.ab, base_audio, 0),
                            !.mix_ba = Overlay(swap.ba, base_audio, 0)]
    /\ UNCHANGED <<fixedInSwap, mapVars, runVars>>

NextMix == OverlayFirst \/ OverlaySecond \/ OverlayVoice

SpecMix == InitMix /\ [][NextMix]_vars

(***************************************************************************)
(* Claims on the run (Spec).                                               *)
(***************************************************************************)
Items == sfx_plan.items
WellFormed(effect) ==
    /\ effect.dict
    /\ effect.prompt # None
    /\ effect.prompt[1].str
    /\ effect.prompt[1].text # ""
    /\ effect.timestamp # None
BadPrompt(effect) ==
    \/ effect.prompt = None
    \/ ~effect.prompt[1].str
    \/ effect.prompt[1].text = ""
Requested(j) == \E k \in 1..Len(requests) : requests[k].index = j
Reported(j) == \E k \in 1..Len(errors) : errors[k].index = j
Composited(j) == \E k \in 1..Len(overlaid) : overlaid[k].index = j

\* C2.  For a plan of N effects of which M synthesis requests fail, the run
\* never stops iterating, issues N requests, overlays exactly N - M clips
\* and reaches the export step.
C2_BatchCompletes ==
    (plan_raw = "list" /\ (\A j \in 1..Len(Items) : WellFormed(Items[j]))
       /\ fatal # "load_voice") =>
        /\ pc = "halted" => fatal = "export"
        /\ (pc \in {"export", "done"} \/ fatal = "export") =>
              /\ Len(requests) = Len(Items)
              /\ Len(overlaid) = Len(Items) - Len(errors)

\* C3.  A failure to decode the bytes returned for one effect is reported,
\* the effect is skipped, and the run continues with the next effect.
C3_DecodeFailureSkipped ==
    last_outcome = "decode_failed" =>
        /\ pc = "loop"
        /\ fatal = "none"
        /\ Reported(requests[Len(requests)].index)
        /\ i = requests[Len(requests)].index

\* C4.  The final mix is at least as long as the voice, and no overlaid
\* clip is truncated: the layer holds every clip up to its last frame.
C4_NoClipTruncated ==
    /\ pc \in {"export", "done"} => Len(final_mix) >= Len(base_audio)
    /\ \A k \in 1..Len(overlaid) :
          overlaid[k].position \div FrameMs + Len(overlaid[k].clip) <= Len(sfx_layer)

\* C5.  The duration sent for an effect is its duration_seconds (2.0 when
\* absent) clamped into [0.5, 22.0], and every effect the loop has passed
\* was requested and then composited or reported, whatever its duration.
C5_DurationClamped ==
    /\ \A k \in 1..Len(requests) :
          LET d == Get(Items[requests[k].index].duration_seconds, 20)
          IN  /\ requests[k].duration >= 5
              /\ requests[k].duration <= 220
              /\ (d >= 5 /\ d <= 220) => requests[k].duration = d
              /\ d > 220 => requests[k].duration = 220
              /\ d < 5 => requests[k].duration = 5
    /\ \A j \in 1..i : Requested(j) /\ (Composited(j) \/ Reported(j))

\* durations 30 and -5 were sent as 22.0 and 0.5 and both clips composited
C5_Witness ==
    /\ pc = "done"
    /\ Len(Items) = 2
    /\ Items[1].duration_seconds = Some(300)
    /\ Items[2].duration_seconds = Some(-50)
    /\ Len(requests) = 2
    /\ requests[1].duration = 220
    /\ requests[2].duration = 5
    /\ Composited(1) /\ Composited(2)

\* C6.  An effect whose prompt is absent, not a string or empty is dropped:
\* no request, no overlay, and no fatal error.
C6_BadPromptDropped ==
    \A j \in 1..Len(Items) :
        (Items[j].dict /\ BadPrompt(Items[j])) =>
            /\ ~Requested(j)
            /\ ~Composited(j)
            /\ ~(fatal = "effect_prompt" /\ i + 1 = j)

\* C7 as stated.  The overlay offset is the nearest millisecond to
\* timestamp_seconds * 1000.
C7_OffsetRounded ==
    \A k \in 1..Len(overlaid) :
        LET ts == Items[overlaid[k].index].timestamp[1]
        IN  ts >= 0 => 2 * Abs(TsPerMs * overlaid[k].position - ts) <= TsPerMs

\* C7 as amended.  The overlay offset is timestamp_seconds * 1000 with its
\* fractional part discarded: offset <= timestamp * 1000 < offset + 1.
C7_OffsetTruncated ==
    \A k \in 1..Len(overlaid) :
        LET ts == Items[overlaid[k].index].timestamp[1]
        IN  ts >= 0 =>
              /\ TsPerMs * overlaid[k].position <= ts
              /\ ts < TsPerMs * (overlaid[k].position + 1)

\* an effect at 1000.6 ms was overlaid at 1000 ms
C7_Witness ==
    \E k \in 1..Len(overlaid) :
        /\ Items[overlaid[k].index].timestamp = Some(10006)
        /\ overlaid[k].position = 1000

\* C9.  A missing or malformed effects list is an empty plan: no request,
\* no failure, and a final mix of the voice over a silent layer.
C9_MalformedPlanIsEmpty ==
    plan_raw \in {"missing", "null", "number", "string"} =>
        /\ fatal \notin {"plan_report", "effect_prompt"}
        /\ requests = <<>>
        /\ pc = "done" =>
              final_mix = Overlay(Silent(LenMs(base_audio) + MarginMs), base_audio, 0)

\* C10.  The output is offered only after transcription, planning, the
\* pass over every plan entry and the voice overlay; a run ended by an
\* exception stays ended and offers nothing, and before the export step it
\* has produced no mix at all.
C10_OutputOnlyWhenComplete ==
    /\ offered =>
          /\ pc = "done"
          /\ fatal = "none"
          /\ sonic_map = SonicMapOf(words, silence_thresh).map
          /\ Sized(sfx_plan)
          /\ i = Len(Items)
          /\ \A j \in 1..Len(Items) : Requested(j)
          /\ final_mix = Overlay(sfx_layer, base_audio, 0)
    /\ fatal # "none" =>
          /\ pc = "halted"
          /\ ~offered
          /\ fatal # "export" => final_mix = <<>>

\* the run ended on a decode failure after one clip was composited
C10_Witness ==
    /\ pc = "halted"
    /\ fatal = "decode"
    /\ Len(overlaid) = 1
    /\ \E k \in 1..Len(sfx_layer) : sfx_layer[k] # 0
    /\ ~offered
    /\ final_mix = <<>>

(***************************************************************************)
(* Claims on the two-order experiment (SpecMix).                           *)
(***************************************************************************)
\* the sample clip c placed at ms adds to frame k of the layer
At(c, ms, k) ==
    LET p == FrameAt(sfx_layer, ms)
    IN  IF k > p /\ k <= p + Len(c) THEN c[k - p] ELSE 0
InRange(v) == v >= SampleMin /\ v <= SampleMax
IsSilent(seg) == \A k \in 1..Len(seg) : seg[k] = 0
\* no sum of the layer with either clip or both leaves the sample range
NothingClipped ==
    \A k \in 1..Len(sfx_layer) :
        /\ InRange(sfx_layer[k] + At(swap.a, swap.pa, k))
        /\ InRange(sfx_layer[k] + At(swap.b, swap.pb, k))
        /\ InRange(sfx_layer[k] + At(swap.a, swap.pa, k) + At(swap.b, swap.pb, k))

====
